---- MODULE Spec2Model ----
(***************************************************************************)
(* The rlox scanner (src/src/scanner.rs) and the diagnostics flag of       *)
(* src/src/main.rs.  One Scanner is modelled at a time: its fields, the    *)
(* position inside scan_tokens (pc), and the process-wide has_error flag.  *)
(* Every loop iteration of scan_tokens, consume_string and consume_number  *)
(* is one step.  A Rust panic (index out of range, slice off a character   *)
(* boundary, failed f32 parse) ends the scan in pc = "panic".              *)
(***************************************************************************)
EXTENDS Integers, Sequences, FiniteSets, TLC

\* ------------------------------------------------------------------ bounds
\* Longest input text, in characters.
MaxLen == 3
\* How many times scan_tokens is called on one Scanner.
MaxCalls == 2
\* How many texts one process scans (lines of the prompt, tests of the test run).
MaxRuns == 2
\* How many calls of error() one scanning thread makes, and how many calls of
\* has_error() or reset() the thread that watches the flag makes.
MaxOps == 2

\* -------------------------------------------------------------- characters
\* Characters are strings of length one, except EACUTE, which stands for a
\* character whose UTF-8 encoding takes two bytes (U+00E9).
EACUTE == "U+00E9"
NUL == "NUL"
NL == "\n"
TAB == "\t"
CR == "\r"
SP == " "
QUOTE == "\""
BACKSLASH == "\\"

Alphabet ==
  {"(", "!", "=", "<", ">", "/", ".", "1", "a", QUOTE, NL, TAB, SP, BACKSLASH, EACUTE}

Digits == {"0", "1", "2", "3", "4", "5", "6", "7", "8", "9"}

\* char::len_utf8
Utf8Len(c) == IF c = EACUTE THEN 2 ELSE 1

\* A byte of the String: the character it belongs to and its position in that
\* character's encoding (k = 1 is the leading byte).
RECURSIVE CharBytes(_, _)
CharBytes(c, k) ==
  IF k > Utf8Len(c) THEN <<>> ELSE <<[ch |-> c, k |-> k]>> \o CharBytes(c, k + 1)

\* String::from(input): the UTF-8 bytes of the text.
RECURSIVE Encode(_)
Encode(cs) == IF cs = <<>> THEN <<>> ELSE CharBytes(Head(cs), 1) \o Encode(Tail(cs))

\* All input texts of at most MaxLen characters.
Inputs == UNION {[1..n -> Alphabet] : n \in 0..MaxLen}

\* ------------------------------------------------------ the tests' texts
\* The texts the unit tests of scanner.rs scan, character by character.
Test_single_line_comment ==
  <<"/", "/", " ", "j", "u", "s", "t", " ", "a", " ", "c", "o", "m", "m", "e", "n",
    "t">>

Test_bang_equals ==
  <<"a", "s", "d", "f", " ", "!", "=", " ", "f", "o", "o", ";">>

Test_bang_operator ==
  <<"1", "0", " ", "!", " ", "2", "0", ";">>

Test_single_character_lexemes ==
  <<"(", ")", " ", "{", "}", " ", ".", " ", "<", ">", " ", "*", " ">>

Test_string_literal ==
  <<"\"", "t", "h", "i", "s", " ", "i", "s", " ", "a", " ", "s", "t", "r", "i", "n",
    "g", "\"", ";">>

Test_boolean_statement_with_strings ==
  <<"\"", "a", "s", "d", "f", "\"", " ", "=", "=", " ", "\"", "b", "o", "o", "\"", ";">>

Test_integer_number ==
  <<"v", "a", "r", " ", "f", "o", "o", " ", "=", " ", "9", ";">>

Test_float_number ==
  <<"v", "a", "r", " ", "f", "o", "o", " ", "=", " ", "9", ".", "1", "2", "3", "4",
    "5", "5", "4", "4", "3", ";">>

TestInputs ==
  {Test_single_line_comment,
   Test_bang_equals,
   Test_bang_operator,
   Test_single_character_lexemes,
   Test_string_literal,
   Test_boolean_statement_with_strings,
   Test_integer_number,
   Test_float_number}

\* Characters of names: letters (one of them of two bytes), the underscore, a
\* digit.
NameAlphabet == {"a", "Z", "_", "9", EACUTE}

\* The tests' texts, and every text of at most MaxLen name characters.
NameInputs == TestInputs \cup UNION {[1..n -> NameAlphabet] : n \in 0..MaxLen}

\* ------------------------------------------------------------------- state
VARIABLES
  source,     \* Scanner.source: the bytes of the input
  chars,      \* Scanner.chars: the decoded characters of the input
  start,      \* Scanner.start
  current,    \* Scanner.current
  line,       \* Scanner.line
  result,     \* Scanner.result
  has_error,  \* lox::STATE.has_error
  reported,   \* the diagnostics this Scanner wrote to stderr: [line, message]
  pc,         \* position in scan_tokens: loop, comment, string, number,
              \* fraction, done (returned), panic (aborted)
  fault,      \* why the scan panicked: none, index, slice, parse
  calls,      \* calls of scan_tokens on this Scanner so far
  err0,       \* has_error when this Scanner was constructed
  \* the driver (main.rs) and the test run
  mode,       \* lib (a Scanner used on its own), file, prompt, tests
  dpc,        \* position in the driver: none, start, read, scan, after_run, exited
  printed,    \* the tokens run() printed for the current text
  exit_code,  \* the exit status of the process, -1 while it runs
  runs,       \* texts read so far (lines of the prompt, tests)
  \* threads that use the flag concurrently
  lock,       \* the thread that holds lox::STATE's mutex, or "none"
  tpc,        \* per thread: idle, lock (waiting in STATE.lock()), held, unlock
  top,        \* per thread: the function it is in: error, has_error, reset
  tseen,      \* per thread: what its last has_error() returned
  pending,    \* a call of error() has completed since the last reset()
  ops         \* per thread: calls completed

svars ==
  <<source, chars, start, current, line, result, reported, pc, fault, calls, err0>>

dvars == <<mode, dpc, printed, exit_code, runs>>

cvars == <<lock, tpc, top, tseen, pending, ops>>

vars == <<svars, has_error, dvars, cvars>>

\* The threads: two that scan and report errors, one that reads and resets
\* the flag as the driver does.
Scanners == {"s1", "s2"}
Watcher == "main"
Threads == Scanners \cup {Watcher}

\* No thread is inside a function of lox.
ThreadsIdle ==
  /\ lock = "none"
  /\ tpc = [t \in Threads |-> "idle"]
  /\ top = [t \in Threads |-> "none"]
  /\ tseen = [t \in Threads |-> FALSE]
  /\ pending = FALSE
  /\ ops = [t \in Threads |-> 0]

\* The Scanner is used on its own, outside the driver.
NoDriver ==
  /\ mode = "lib"
  /\ dpc = "none"
  /\ printed = <<>>
  /\ exit_code = -1
  /\ runs = 0

\* ---------------------------------------------------------------- str ops
\* str::is_char_boundary
is_char_boundary(i) ==
  \/ i = 0
  \/ i = Len(source)
  \/ i < Len(source) /\ source[i + 1].k = 1

\* &self.source[a..b] panics unless a <= b <= len and both are boundaries.
SliceOk(a, b) ==
  /\ 0 <= a /\ a <= b /\ b <= Len(source)
  /\ is_char_boundary(a) /\ is_char_boundary(b)

\* &self.source[a..b]: the characters encoded by bytes a..b-1.
RECURSIVE Decode(_)
Decode(bs) ==
  IF bs = <<>> THEN <<>>
  ELSE (IF Head(bs).k = 1 THEN <<Head(bs).ch>> ELSE <<>>) \o Decode(Tail(bs))

Slice(a, b) == Decode(SubSeq(source, a + 1, b))

\* ------------------------------------------------------------ f32 parsing
RECURSIVE Count(_, _)
Count(s, S) ==
  IF s = <<>> THEN 0 ELSE (IF Head(s) \in S THEN 1 ELSE 0) + Count(Tail(s), S)

\* str::parse::<f32> succeeds on an optional sign followed by digits with at
\* most one '.', at least one digit in all (exponents, "inf" and "nan" need
\* letters that no text of digits and '.' holds).
ParsesAsF32(s) ==
  LET body == IF s # <<>> /\ s[1] \in {"+", "-"} THEN Tail(s) ELSE s
  IN  /\ \A i \in 1..Len(body) : body[i] \in Digits \cup {"."}
      /\ Count(body, {"."}) <= 1
      /\ Count(body, Digits) >= 1

\* The digits of s before its '.' and after it.
RECURSIVE IntPart(_)
IntPart(s) ==
  IF s = <<>> \/ Head(s) = "." THEN <<>> ELSE <<Head(s)>> \o IntPart(Tail(s))

RECURSIVE FracPart(_)
FracPart(s) ==
  IF s = <<>> THEN <<>> ELSE IF Head(s) = "." THEN Tail(s) ELSE FracPart(Tail(s))

RECURSIVE StripLeadingZeros(_)
StripLeadingZeros(s) ==
  IF s # <<>> /\ Head(s) = "0" THEN StripLeadingZeros(Tail(s)) ELSE s

RECURSIVE StripTrailingZeros(_)
StripTrailingZeros(s) ==
  IF s # <<>> /\ s[Len(s)] = "0" THEN StripTrailingZeros(SubSeq(s, 1, Len(s) - 1)) ELSE s

\* The parsed value of an unsigned decimal text, as the pair of its integer
\* digits without leading zeros and its fraction digits without trailing
\* zeros: two texts parse to the same pair iff they denote the same decimal
\* number (the rounding to f32 is not modelled).
ParseF32(s) == <<StripLeadingZeros(IntPart(s)), StripTrailingZeros(FracPart(s))>>

\* ------------------------------------------------------------------ tokens
SingleChars == {"(", ")", "{", "}", ",", ".", "-", "+", ";", "*"}

SingleKind(c) ==
  CASE c = "(" -> "LeftParen" [] c = ")" -> "RightParen"
    [] c = "{" -> "LeftBrace" [] c = "}" -> "RightBrace"
    [] c = "," -> "Comma" [] c = "." -> "Dot" [] c = "-" -> "Minus"
    [] c = "+" -> "Plus" [] c = ";" -> "Semicolon" [] c = "*" -> "Star"

OperatorChars == {"!", "=", "<", ">"}

\* Mutant: the two arms of `if self.next_is('=')` are swapped.
OneCharKind_Swapped(c) ==
  CASE c = "!" -> "BangEqual" [] c = "=" -> "EqualEqual"
    [] c = "<" -> "LessEqual" [] c = ">" -> "GreaterEqual"

\* The kind for an operator character alone and followed by '='.
OneCharKind(c) ==
  CASE c = "!" -> "Bang" [] c = "=" -> "Equal" [] c = "<" -> "Less" [] c = ">" -> "Greater"

TwoCharKind(c) ==
  CASE c = "!" -> "BangEqual" [] c = "=" -> "EqualEqual"
    [] c = "<" -> "LessEqual" [] c = ">" -> "GreaterEqual"

NilLiteral == [kind |-> "Nil", value |-> <<>>]
StringLiteral(s) == [kind |-> "StringLiteral", value |-> s]
NumberLiteral(v) == [kind |-> "NumberLiteral", value |-> v]

Token(tt, lx, lit, ln) == [token_type |-> tt, lexeme |-> lx, literal |-> lit, line |-> ln]

\* Mutant: the end marker is given the kind Nil (the literal's name) for Eof.
EofToken_NilKind(ln) == Token("Nil", <<>>, NilLiteral, ln)

EofToken(ln) == Token("Eof", <<>>, NilLiteral, ln)

\* ------------------------------------------------------------ cursor ops
\* Scanner::at_end compares the character index with the BYTE length.
at_end(cur) == cur >= Len(source)

\* self.chars[cur] is in range.
IndexOk(cur) == cur < Len(chars)

\* Scanner::peek reads chars[cur] unless at_end; the read is out of range when
\* cur is below the byte length but not below the character count.
peek_faults(cur) == ~at_end(cur) /\ ~IndexOk(cur)
peek(cur) == IF at_end(cur) THEN NUL ELSE chars[cur + 1]

\* Scanner::peek_next
peek_next_faults(cur) == ~(cur + 1 >= Len(source)) /\ ~IndexOk(cur + 1)
peek_next(cur) == IF cur + 1 >= Len(source) THEN NUL ELSE chars[cur + 2]

\* Scanner::next_is: true (and one character is consumed) iff not at_end and
\* chars[cur] = c.
next_is_faults(cur) == ~at_end(cur) /\ ~IndexOk(cur)
next_is(cur, c) == ~at_end(cur) /\ chars[cur + 1] = c

is_digit(c) == c \in Digits

\* ------------------------------------------------------------- diagnostics
\* Mutant: report writes the message and leaves the flag alone.
error_NoFlag(ln, msg) ==
  /\ has_error' = has_error
  /\ reported' = Append(reported, [line |-> ln, message |-> msg])

\* lox::error -> lox::report: write the message, set the flag.
error(ln, msg) ==
  /\ has_error' = TRUE
  /\ reported' = Append(reported, [line |-> ln, message |-> msg])

\* ------------------------------------------------------------ step pieces
\* The scan panics with the cursor at cur.
Abort(kind, cur) ==
  /\ pc' = "panic"
  /\ fault' = kind
  /\ current' = cur
  /\ UNCHANGED <<line, result, has_error, reported>>

\* Continue at position p with the cursor at cur, nothing emitted.
Goto(p, cur) ==
  /\ pc' = p
  /\ current' = cur
  /\ UNCHANGED <<line, result, has_error, reported, fault>>

\* Scanner::append_token_literal with the cursor at cur: the lexeme is
\* source[st..cur]; the slice panics off a character boundary.
append_token_literal(tt, lit, st, cur) ==
  /\ current' = cur
  /\ UNCHANGED <<line, has_error, reported>>
  /\ IF SliceOk(st, cur)
     THEN /\ result' = Append(result, Token(tt, Slice(st, cur), lit, line))
          /\ pc' = "loop"
          /\ fault' = fault
     ELSE /\ result' = result
          /\ pc' = "panic"
          /\ fault' = "slice"

\* Scanner::append_token
append_token(tt, st, cur) == append_token_literal(tt, NilLiteral, st, cur)

\* ------------------------------------------------------------------ actions
\* Scanner::new(input).  The flag is a process-wide static that outlives every
\* Scanner and is cleared only by reset(): a Scanner built after an earlier
\* scan reported (as the tests build one after another in one process) starts
\* with the flag set, so both values are initial.
Init ==
  \E input \in Inputs :
    /\ source = Encode(input)
    /\ chars = input
    /\ start = 0
    /\ current = 0
    /\ line = 1
    /\ result = <<>>
    /\ has_error \in BOOLEAN
    /\ reported = <<>>
    /\ pc = "loop"
    /\ fault = "none"
    /\ calls = 1
    /\ err0 = has_error
    /\ NoDriver
    /\ ThreadsIdle

\* One pass of `while !self.at_end()` in scan_tokens: either the loop ends and
\* Eof is pushed, or one character is taken and dispatched.
MainLoop ==
  /\ pc = "loop"
  /\ UNCHANGED <<source, chars, calls, err0>>
  /\ UNCHANGED <<dvars, cvars>>
  /\ IF at_end(current)
     THEN /\ result' = Append(result, EofToken(line))
          /\ pc' = "done"
          /\ UNCHANGED <<start, current, line, has_error, reported, fault>>
     ELSE /\ start' = current
          /\ IF ~IndexOk(current)
             THEN Abort("index", current)
             ELSE LET c == chars[current + 1]
                      cur == current + 1
                  IN  CASE c \in SingleChars -> append_token(SingleKind(c), current, cur)
                        [] c \in OperatorChars ->
                             IF next_is_faults(cur) THEN Abort("index", cur)
                             ELSE IF next_is(cur, "=")
                                  THEN append_token(TwoCharKind(c), current, cur + 1)
                                  ELSE append_token(OneCharKind(c), current, cur)
                        [] c = "/" ->
                             IF next_is_faults(cur) THEN Abort("index", cur)
                             ELSE IF next_is(cur, "/")
                                  THEN Goto("comment", cur + 1)
                                  ELSE append_token("Slash", current, cur)
                        [] c \in Digits -> Goto("number", cur)
                        [] c = QUOTE -> Goto("string", cur)
                        [] c = NL ->
                             /\ line' = line + 1
                             /\ current' = cur
                             /\ UNCHANGED <<pc, result, has_error, reported, fault>>
                        [] c = TAB -> Goto("loop", cur)
                        [] OTHER ->
                             /\ error(line, <<"Unexpected character: ", c>>)
                             /\ current' = cur
                             /\ UNCHANGED <<pc, line, result, fault>>

\* One pass of `while self.peek() != '\n' && !self.at_end()` (line comment).
Comment ==
  /\ pc = "comment"
  /\ UNCHANGED <<source, chars, start, calls, err0>>
  /\ UNCHANGED <<dvars, cvars>>
  /\ IF peek_faults(current) THEN Abort("index", current)
     ELSE IF peek(current) # NL /\ ~at_end(current)
          THEN Goto("comment", current + 1)
          ELSE Goto("loop", current)

\* Mutant: a newline inside a string literal is not counted.
string_line_NoCount(c, ln) == ln

\* consume_string: `if self.peek() == '\n' { self.line += 1 }`.
string_line(c, ln) == IF c = NL THEN ln + 1 ELSE ln

\* Mutant: the advance sits in the else branch of the newline test, so a
\* newline inside a literal is counted over and over and never consumed.
string_advance_Else(c, cur) == IF c = NL THEN cur ELSE cur + 1

\* consume_string: `self.advance()` at the end of the loop body, whatever the
\* character c under the cursor.
string_advance(c, cur) == cur + 1

\* One pass of the loop of consume_string, or what follows the loop.
String ==
  /\ pc = "string"
  /\ UNCHANGED <<source, chars, start, calls, err0>>
  /\ UNCHANGED <<dvars, cvars>>
  /\ IF peek_faults(current) THEN Abort("index", current)
     ELSE IF peek(current) # QUOTE /\ ~at_end(current)
          THEN /\ line' = string_line(peek(current), line)
               /\ current' = string_advance(peek(current), current)
               /\ UNCHANGED <<pc, result, has_error, reported, fault>>
          ELSE IF at_end(current)
               THEN /\ error(line, <<"Unterminated string.">>)
                    /\ pc' = "loop"
                    /\ UNCHANGED <<current, line, result, fault>>
               ELSE LET cur == current + 1
                    IN  IF SliceOk(start + 1, cur - 1)
                        THEN append_token_literal(
                               "TString", StringLiteral(Slice(start + 1, cur - 1)), start, cur)
                        ELSE /\ pc' = "panic"
                             /\ fault' = "slice"
                             /\ current' = cur
                             /\ UNCHANGED <<line, result, has_error, reported>>

\* The end of consume_number: slice, parse, append.
FinishNumber(cur) ==
  IF ~SliceOk(start, cur) THEN Abort("slice", cur)
  ELSE IF ~ParsesAsF32(Slice(start, cur)) THEN Abort("parse", cur)
       ELSE append_token_literal("Number", NumberLiteral(ParseF32(Slice(start, cur))), start, cur)

\* One pass of the first digit loop of consume_number, or the test for a
\* fractional part that follows it.
Number ==
  /\ pc = "number"
  /\ UNCHANGED <<source, chars, start, calls, err0>>
  /\ UNCHANGED <<dvars, cvars>>
  /\ IF peek_faults(current) THEN Abort("index", current)
     ELSE IF is_digit(peek(current)) THEN Goto("number", current + 1)
          ELSE IF peek(current) = "."
               THEN IF peek_next_faults(current) THEN Abort("index", current)
                    ELSE IF is_digit(peek_next(current))
                         THEN Goto("fraction", current + 1)
                         ELSE FinishNumber(current)
               ELSE FinishNumber(current)

\* One pass of the second digit loop of consume_number, or its end.
Fraction ==
  /\ pc = "fraction"
  /\ UNCHANGED <<source, chars, start, calls, err0>>
  /\ UNCHANGED <<dvars, cvars>>
  /\ IF peek_faults(current) THEN Abort("index", current)
     ELSE IF is_digit(peek(current)) THEN Goto("fraction", current + 1)
          ELSE FinishNumber(current)

\* scan_tokens is called again on a Scanner that has returned.
ScanAgain ==
  /\ pc = "done"
  /\ calls < MaxCalls
  /\ calls' = calls + 1
  /\ pc' = "loop"
  /\ UNCHANGED <<source, chars, start, current, line, result, has_error, reported,
                 fault, err0>>
  /\ UNCHANGED <<dvars, cvars>>

\* Scanner::new on one of the tests' texts or on a text of name characters.
InitNames ==
  \E input \in NameInputs :
    /\ source = Encode(input)
    /\ chars = input
    /\ start = 0
    /\ current = 0
    /\ line = 1
    /\ result = <<>>
    /\ has_error \in BOOLEAN
    /\ reported = <<>>
    /\ pc = "loop"
    /\ fault = "none"
    /\ calls = 1
    /\ err0 = has_error
    /\ NoDriver
    /\ ThreadsIdle

Next == MainLoop \/ Comment \/ String \/ Number \/ Fraction \/ ScanAgain

Spec == Init /\ [][Next]_vars

\* The scans of the tests' texts and of texts of name characters.
SpecNames == InitNames /\ [][Next]_vars

\* ------------------------------------------------------------------ driver
\* exit(65) in run_file.
ExitDataErr == 65

\* State::reset
reset == has_error' = FALSE

\* The lines stdin.lock().lines() yields hold no newline.
Lines == {i \in Inputs : \A k \in 1..Len(i) : i[k] # NL}

\* Scanner::new(input) inside the driver.
NewScanner(input) ==
  /\ source' = Encode(input)
  /\ chars' = input
  /\ start' = 0
  /\ current' = 0
  /\ line' = 1
  /\ result' = <<>>
  /\ reported' = <<>>
  /\ pc' = "loop"
  /\ fault' = "none"
  /\ calls' = 1
  /\ err0' = has_error

\* The Scanner of run() goes out of scope.
DropScanner ==
  /\ source' = <<>>
  /\ chars' = <<>>
  /\ start' = 0
  /\ current' = 0
  /\ line' = 1
  /\ result' = <<>>
  /\ pc' = "idle"
  /\ fault' = "none"
  /\ calls' = 0
  /\ err0' = FALSE

\* run(script) up to the call of scan_tokens: an empty script is not scanned.
run(script) ==
  /\ printed' = <<>>
  /\ IF script = <<>>
     THEN DropScanner /\ reported' = <<>> /\ dpc' = "after_run"
     ELSE NewScanner(script) /\ dpc' = "scan"

\* The process starts: main takes run_file or run_prompt, or the test run
\* starts; the flag is the static's initial value.
InitDriver ==
  /\ mode \in {"file", "prompt", "tests"}
  /\ dpc = IF mode = "file" THEN "start" ELSE "read"
  /\ has_error = FALSE
  /\ source = <<>>
  /\ chars = <<>>
  /\ start = 0
  /\ current = 0
  /\ line = 1
  /\ result = <<>>
  /\ reported = <<>>
  /\ pc = "idle"
  /\ fault = "none"
  /\ calls = 0
  /\ err0 = FALSE
  /\ printed = <<>>
  /\ exit_code = -1
  /\ runs = 0
  /\ ThreadsIdle

\* run_file: the file is read and run() starts on its contents.
ReadFile ==
  /\ mode = "file" /\ dpc = "start"
  /\ \E contents \in Inputs : run(contents)
  /\ runs' = runs + 1
  /\ UNCHANGED <<has_error, mode, exit_code, cvars>>

\* run_prompt: the next line is read and run() starts on it.
ReadLine ==
  /\ mode = "prompt" /\ dpc = "read"
  /\ runs < MaxRuns
  /\ \E ln \in Lines : run(ln)
  /\ runs' = runs + 1
  /\ UNCHANGED <<has_error, mode, exit_code, cvars>>

\* A test of scanner.rs builds a Scanner on its text; the flag is what the
\* tests before it left.
RunTest ==
  /\ mode = "tests" /\ dpc = "read"
  /\ runs < MaxRuns
  /\ \E t \in TestInputs : NewScanner(t)
  /\ dpc' = "scan"
  /\ runs' = runs + 1
  /\ UNCHANGED <<has_error, mode, printed, exit_code, cvars>>

\* The file or the line cannot be read: expect() panics, the process ends with
\* the status of a panic.
ReadFails ==
  /\ \/ mode = "file" /\ dpc = "start"
     \/ mode = "prompt" /\ dpc = "read"
  /\ dpc' = "exited"
  /\ exit_code' = 101
  /\ UNCHANGED <<svars, has_error, mode, printed, runs, cvars>>

\* run(): scan_tokens has returned and every token is printed.
PrintTokens ==
  /\ mode \in {"file", "prompt"} /\ dpc = "scan" /\ pc = "done"
  /\ printed' = result
  /\ dpc' = "after_run"
  /\ UNCHANGED <<svars, has_error, mode, exit_code, runs, cvars>>

\* scan_tokens panicked: the process ends with the status of a panic.
PanicExit ==
  /\ mode \in {"file", "prompt"} /\ dpc = "scan" /\ pc = "panic"
  /\ dpc' = "exited"
  /\ exit_code' = 101
  /\ UNCHANGED <<svars, has_error, mode, printed, runs, cvars>>

\* run_file after run(): exit(65) if the flag is set, else main returns.
FileCheck ==
  /\ mode = "file" /\ dpc = "after_run"
  /\ exit_code' = IF has_error THEN ExitDataErr ELSE 0
  /\ dpc' = "exited"
  /\ UNCHANGED <<svars, has_error, mode, printed, runs, cvars>>

\* run_prompt after run(): lox::state().reset(); what the line printed and
\* reported is no longer looked at.
Reset ==
  /\ mode = "prompt" /\ dpc = "after_run"
  /\ reset
  /\ DropScanner
  /\ reported' = <<>>
  /\ printed' = <<>>
  /\ dpc' = "read"
  /\ UNCHANGED <<mode, exit_code, runs, cvars>>

\* A test has its tokens and ends; its Scanner is dropped.
TestDone ==
  /\ mode = "tests" /\ dpc = "scan" /\ pc = "done"
  /\ DropScanner
  /\ reported' = <<>>
  /\ dpc' = "read"
  /\ UNCHANGED <<has_error, mode, printed, exit_code, runs, cvars>>

\* stdin is at its end and main returns, or the test run is over.
Finish ==
  /\ mode \in {"prompt", "tests"} /\ dpc = "read"
  /\ dpc' = "exited"
  /\ exit_code' = 0
  /\ UNCHANGED <<svars, has_error, mode, printed, runs, cvars>>

NextDriver ==
  \/ ReadFile \/ ReadLine \/ RunTest \/ ReadFails
  \/ MainLoop \/ Comment \/ String \/ Number \/ Fraction
  \/ PrintTokens \/ PanicExit \/ FileCheck \/ Reset \/ TestDone \/ Finish

\* The program: the driver on a file, the driver at the prompt, the test run.
SpecDriver == InitDriver /\ [][NextDriver]_vars

\* ---------------------------------------------------------------------------
\* Threads that call into lox at the same time.  Each scanning thread calls
\* error (which is report); the watching thread calls state().has_error() or
\* state().reset().  Every one of them goes through state(), that is
\* STATE.lock(): it waits for the mutex, touches the flag under the guard, and
\* the guard is dropped at the end of the statement or of report.

\* The functions of lox a thread may call.
OpsOf(t) == IF t \in Scanners THEN {"error"} ELSE {"has_error", "reset"}

InitConc ==
  /\ mode = "threads"
  /\ dpc = "none"
  /\ has_error = FALSE
  /\ source = <<>>
  /\ chars = <<>>
  /\ start = 0
  /\ current = 0
  /\ line = 1
  /\ result = <<>>
  /\ reported = <<>>
  /\ pc = "idle"
  /\ fault = "none"
  /\ calls = 0
  /\ err0 = FALSE
  /\ printed = <<>>
  /\ exit_code = -1
  /\ runs = 0
  /\ ThreadsIdle

\* A thread enters report (its eprintln! is done) or begins the statement
\* lox::state().has_error() / lox::state().reset().
Call(t) ==
  /\ tpc[t] = "idle"
  /\ ops[t] < MaxOps
  /\ \E op \in OpsOf(t) : top' = [top EXCEPT ![t] = op]
  /\ tpc' = [tpc EXCEPT ![t] = "lock"]
  /\ UNCHANGED <<svars, has_error, dvars, lock, tseen, pending, ops>>

\* Mutant: lock() returns a guard although another thread holds one.
Lock_NoWait(t) ==
  /\ tpc[t] = "lock"
  /\ lock' = t
  /\ tpc' = [tpc EXCEPT ![t] = "held"]
  /\ UNCHANGED <<svars, has_error, dvars, top, tseen, pending, ops>>

\* STATE.lock().unwrap(): returns once no other thread holds the guard.
Lock(t) ==
  /\ tpc[t] = "lock"
  /\ lock = "none"
  /\ lock' = t
  /\ tpc' = [tpc EXCEPT ![t] = "held"]
  /\ UNCHANGED <<svars, has_error, dvars, top, tseen, pending, ops>>

\* The access made through the guard: state.has_error = true in report,
\* self.has_error in has_error(), self.has_error = false in reset().
Access(t) ==
  /\ tpc[t] = "held"
  /\ CASE top[t] = "error" ->
            has_error' = TRUE /\ UNCHANGED <<tseen, pending>>
       [] top[t] = "has_error" ->
            tseen' = [tseen EXCEPT ![t] = has_error] /\ UNCHANGED <<has_error, pending>>
       [] top[t] = "reset" ->
            reset /\ pending' = FALSE /\ UNCHANGED tseen
  /\ tpc' = [tpc EXCEPT ![t] = "unlock"]
  /\ UNCHANGED <<svars, dvars, lock, top, ops>>

\* The guard is dropped and the function returns; a call of error is now
\* complete.
Unlock(t) ==
  /\ tpc[t] = "unlock"
  /\ lock' = "none"
  /\ pending' = (pending \/ top[t] = "error")
  /\ tpc' = [tpc EXCEPT ![t] = "idle"]
  /\ ops' = [ops EXCEPT ![t] = ops[t] + 1]
  /\ UNCHANGED <<svars, has_error, dvars, top, tseen>>

NextConc == \E t \in Threads : Call(t) \/ Lock(t) \/ Access(t) \/ Unlock(t)

SpecConc == InitConc /\ [][NextConc]_vars

TypeOK ==
  /\ pc \in {"idle", "loop", "comment", "string", "number", "fraction", "done", "panic"}
  /\ fault \in {"none", "index", "slice", "parse"}
  /\ has_error \in BOOLEAN
  /\ current \in 0..Len(source)

\* ================================================================== claims
Last(s) == s[Len(s)]

\* The number of newline characters among the first n characters of the input.
NewlinesBefore(n) == Count(SubSeq(chars, 1, n), {NL})

\* A step of the scan appends a token.
Emits == Len(result') = Len(result) + 1 /\ SubSeq(result', 1, Len(result)) = result

\* C1: the sequence a first call of scan_tokens returns ends with an Eof token
\* with empty lexeme, and no other element is an Eof token.
C1_EofLastOnly ==
  (pc = "done" /\ calls = 1) =>
    /\ Len(result) >= 1
    /\ Last(result).token_type = "Eof"
    /\ Last(result).lexeme = <<>>
    /\ \A i \in 1..(Len(result) - 1) : result[i].token_type # "Eof"

C1_Witness ==
  /\ pc = "done" /\ calls = 1
  /\ Len(result) = 3
  /\ result[1].token_type = "BangEqual"

\* C2: scan_tokens never aborts, whatever the input.
C2_NeverAborts == pc # "panic"

\* The rank of a position in scan_tokens: an inner loop is left for the main
\* loop, the main loop for the return.
Rank ==
  CASE pc \in {"comment", "string", "number", "fraction"} -> 2
    [] pc = "loop" -> 1
    [] OTHER -> 0

\* What is left of the scan: three per byte not yet passed, plus the rank.
Measure == 3 * (Len(source) - current) + Rank

\* C3: scan_tokens terminates: current never decreases, every loop iteration
\* that does not abort the scan strictly increases current, every step of the
\* scan strictly decreases a measure that is never negative, and when Eof is
\* appended every character has been consumed.
C3_Terminates ==
  [][ /\ current' >= current
      /\ (/\ pc' # "panic"
          /\ \/ pc = "loop" /\ pc' # "done"
             \/ pc \in {"comment", "string", "number", "fraction"} /\ pc' = pc)
           => current' > current
      /\ pc \in {"loop", "comment", "string", "number", "fraction"}
           => Measure' < Measure /\ Measure' >= 0
      /\ (pc = "loop" /\ pc' = "done") => current = Len(chars) ]_vars

C3_Witness ==
  /\ pc = "done" /\ calls = 1
  /\ chars = <<QUOTE, NL, QUOTE>>
  /\ current = 3
  /\ Len(result) = 2

\* The kinds the claim names for an operator character alone, and combined
\* with a following '='.
C4_Single(c) ==
  CASE c = "!" -> "Bang" [] c = "=" -> "Equal" [] c = "<" -> "Less" [] c = ">" -> "Greater"

C4_Combined(c) ==
  CASE c = "!" -> "BangEqual" [] c = "=" -> "EqualEqual"
    [] c = "<" -> "LessEqual" [] c = ">" -> "GreaterEqual"

\* C4: maximal munch.  When the main loop takes one of ! = < > and the next
\* character is '=', the step appends exactly one token of the combined kind
\* whose lexeme is the two characters, and consumes both; otherwise it appends
\* exactly one token of the single kind and consumes one character.
C4_MaximalMunch ==
  [][ (pc = "loop" /\ current < Len(chars) /\ chars[current + 1] \in {"!", "=", "<", ">"}) =>
        LET c == chars[current + 1]
            eq == current + 1 < Len(chars) /\ chars[current + 2] = "="
        IN  /\ Emits
            /\ Last(result').token_type = (IF eq THEN C4_Combined(c) ELSE C4_Single(c))
            /\ Last(result').lexeme = (IF eq THEN <<c, "=">> ELSE <<c>>)
            /\ current' = (IF eq THEN current + 2 ELSE current + 1) ]_vars

\* C5: a tab, a space or a carriage return taken by the main loop emits no
\* token and reports no diagnostic.
C5_WhitespaceSilent ==
  [][ (pc = "loop" /\ current < Len(chars) /\ chars[current + 1] \in {TAB, SP, CR}) =>
        /\ result' = result
        /\ reported' = reported
        /\ has_error' = has_error ]_vars

\* C6: the line counter is 1 plus the number of newline characters consumed,
\* the line fields of the tokens are non-decreasing, and the Eof token of a
\* returned sequence carries 1 plus the number of newlines of the input.
C6_Lines ==
  /\ line = 1 + NewlinesBefore(current)
  /\ \A i \in 1..Len(result) : \A j \in i..Len(result) : result[i].line <= result[j].line
  /\ pc = "done" => Last(result).line = 1 + Count(chars, {NL})

C6_Witness ==
  /\ pc = "done" /\ calls = 1
  /\ chars = <<QUOTE, NL, QUOTE>>
  /\ Len(result) = 2
  /\ result[1].token_type = "TString"

\* C7: the line of every token appended is the line of its first character:
\* 1 plus the number of newlines before index start.
C7_LineOfFirstChar ==
  [][ (Emits /\ Last(result').token_type # "Eof") =>
        Last(result').line = 1 + NewlinesBefore(start') ]_vars

\* C8: inside a string literal, a character other than the quote (a backslash
\* too) is consumed and emits nothing; at the first following quote exactly one
\* String token is appended, its lexeme the span with both quotes, its literal
\* the characters strictly between them, and the scan resumes after the quote.
C8_StringLiteral ==
  [][ (pc = "string" /\ current < Len(chars)) =>
        IF chars[current + 1] # QUOTE
        THEN pc' = "string" /\ current' = current + 1 /\ result' = result
        ELSE /\ Emits
             /\ Last(result').token_type = "TString"
             /\ Last(result').lexeme = SubSeq(chars, start + 1, current + 1)
             /\ Last(result').literal.kind = "StringLiteral"
             /\ Last(result').literal.value = SubSeq(chars, start + 2, current)
             /\ current' = current + 1
             /\ pc' = "loop" ]_vars

\* No quote among the characters from index n on.
NoQuoteFrom(n) == \A i \in (n + 1)..Len(chars) : chars[i] # QUOTE

\* C9: an unterminated string literal: the rest of the input is consumed with
\* nothing emitted; at the end of the input one error is reported at the line
\* reached, the flag is set and no token is appended; then the scan returns
\* what it had emitted before the opening quote followed by Eof.
C9_Unterminated ==
  [][ /\ (pc = "string" /\ NoQuoteFrom(current)) =>
           IF current < Len(chars)
           THEN pc' = "string" /\ current' = current + 1 /\ result' = result
           ELSE /\ pc' = "loop"
                /\ result' = result
                /\ has_error'
                /\ reported' = Append(reported, [line |-> 1 + Count(chars, {NL}),
                                                 message |-> <<"Unterminated string.">>])
      /\ (/\ pc = "loop" /\ current = Len(chars) /\ reported # <<>>
          /\ Last(reported).message = <<"Unterminated string.">>) =>
           (pc' = "done" /\ result' = Append(result, EofToken(line))) ]_vars

\* The characters some scanning rule matches.
C10_Matched ==
  {"(", ")", "{", "}", ",", ".", "-", "+", ";", "*", "!", "=", "<", ">", "/",
   QUOTE, NL, TAB} \cup Digits

\* C10: a character no rule matches is consumed alone, emits no token and sets
\* the flag; the scan goes on (it does not abort once such a character has been
\* reported) and the flag is not cleared by the scan.
C10_UnexpectedCharacter ==
  [][ /\ (pc = "loop" /\ current < Len(chars) /\ chars[current + 1] \notin C10_Matched) =>
           /\ current' = current + 1
           /\ result' = result
           /\ has_error'
           /\ pc' = "loop"
      /\ (\E i \in 1..Len(reported) : reported[i].message[1] = "Unexpected character: ") =>
           (pc' # "panic" /\ has_error') ]_vars

\* C11: '/' followed by '/' starts a line comment: every character up to but
\* not including the next newline (or the end of input) is consumed with no
\* token and no diagnostic, and the newline is left for the main loop; '/' not
\* followed by '/' emits exactly one Slash token and consumes nothing more.
C11_LineComment ==
  [][ /\ (pc = "loop" /\ current < Len(chars) /\ chars[current + 1] = "/") =>
           IF current + 1 < Len(chars) /\ chars[current + 2] = "/"
           THEN /\ pc' = "comment" /\ current' = current + 2
                /\ result' = result /\ reported' = reported
           ELSE /\ Emits
                /\ Last(result').token_type = "Slash"
                /\ Last(result').lexeme = <<"/">>
                /\ current' = current + 1
                /\ pc' = "loop"
      /\ pc = "comment" =>
           /\ result' = result /\ reported' = reported /\ line' = line
           /\ IF current < Len(chars) /\ chars[current + 1] # NL
              THEN pc' = "comment" /\ current' = current + 1
              ELSE pc' = "loop" /\ current' = current ]_vars

\* The end of the maximal run of digits that starts after index i.
RECURSIVE DigitRunEnd(_)
DigitRunEnd(i) ==
  IF i < Len(chars) /\ chars[i + 1] \in Digits THEN DigitRunEnd(i + 1) ELSE i

\* The end of the number that starts at index s: the digit run, and a '.' with
\* the digit run after it only when a digit follows the '.'.
NumberEnd(s) ==
  LET e == DigitRunEnd(s)
  IN  IF e + 1 < Len(chars) /\ chars[e + 1] = "." /\ chars[e + 2] \in Digits
      THEN DigitRunEnd(e + 1)
      ELSE e

\* C12: a number token covers the maximal run of digits, and a '.' with a
\* further maximal run of digits only when a digit follows the '.'; at most one
\* '.' is inside the lexeme, and a '.' left out is emitted as a Dot token.
C12_NumberLexeme ==
  [][ /\ (pc \in {"number", "fraction"} /\ pc' \notin {"number", "fraction"}) =>
           /\ Emits
           /\ Last(result').token_type = "Number"
           /\ Last(result').lexeme = SubSeq(chars, start + 1, NumberEnd(start))
           /\ Count(Last(result').lexeme, {"."}) <= 1
           /\ current' = NumberEnd(start)
           /\ pc' = "loop"
      /\ (pc = "loop" /\ current > 0 /\ current < Len(chars) /\ chars[current + 1] = "."
          /\ chars[current] \in Digits) =>
           (Emits /\ Last(result').token_type = "Dot" /\ current' = current + 1)
      /\ pc \in {"number", "fraction"} => (pc' \in {"number", "fraction"} => result' = result)
    ]_vars

\* The lexemes of the tokens ts (the Eof marker aside) lie in the input in
\* order, one after the other without overlap, from index pos on and within
\* the first lim characters: taking each at its leftmost place decides it.
RECURSIVE Embeds(_, _, _)
Embeds(ts, pos, lim) ==
  IF ts = <<>> THEN TRUE
  ELSE IF Head(ts).token_type = "Eof" THEN Embeds(Tail(ts), pos, lim)
  ELSE LET n == Len(Head(ts).lexeme)
           at == {p \in pos..(lim - n) : SubSeq(chars, p + 1, p + n) = Head(ts).lexeme}
       IN  /\ n > 0
           /\ at # {}
           /\ Embeds(Tail(ts), (CHOOSE p \in at : \A q \in at : p <= q) + n, lim)

\* C13: lossless tokenization.  The lexeme of every token appended is the
\* input from start to current, the span is not empty, and the lexemes of the
\* tokens lie in the input in source order without overlap, so that they and
\* the text skipped between them make up the input.
C13_Lossless ==
  [][ /\ (Emits /\ Last(result').token_type # "Eof") =>
           /\ start' < current'
           /\ current' <= Len(chars)
           /\ Last(result').lexeme = SubSeq(chars, start' + 1, current')
      /\ Embeds(result', 0, current') ]_vars

\* C18: the cursor invariant: 0 <= start <= current <= the number of
\* characters, start < current when a token is appended, and the character
\* buffer is never indexed at or past its length.
C18_CursorInvariant ==
  [][ /\ 0 <= start' /\ start' <= current' /\ current' <= Len(chars)
      /\ (Emits /\ Last(result').token_type # "Eof") => start' < current'
      /\ fault' # "index" ]_vars

\* C20: a second call of scan_tokens on a Scanner that has returned returns the
\* sequence the first call returned, with exactly one Eof token, the last.
C20_Idempotent ==
  [][ (pc = "loop" /\ calls = 2 /\ pc' = "done") =>
        /\ result' = result
        /\ Last(result').token_type = "Eof"
        /\ \A i \in 1..(Len(result') - 1) : result'[i].token_type # "Eof" ]_vars

\* The kinds of the tokens ts, in order.
Kinds(ts) == [i \in 1..Len(ts) |-> ts[i].token_type]

C19_NameKinds ==
  {"Identifier", "And", "Class", "Else", "False", "Fun", "For", "If", "Nil", "Or",
   "Print", "Return", "Super", "This", "True", "Var", "While"}

C19_NameStart ==
  {"a", "b", "c", "d", "e", "f", "g", "h", "i", "j", "k", "l", "m", "n", "o", "p", "q",
   "r", "s", "t", "u", "v", "w", "x", "y", "z", "Z", "_", EACUTE}

\* C19: no token of kind Identifier or of a keyword kind is ever emitted; a
\* letter or an underscore taken by the main loop is reported as an unexpected
\* character, one diagnostic for the one character, and emits nothing; the scan
\* of `var foo = 9;` returns Equal, Number, Semicolon, Eof with the flag set.
C19_NoIdentifiers ==
  [][ /\ \A i \in 1..Len(result') : result'[i].token_type \notin C19_NameKinds
      /\ (pc = "loop" /\ current < Len(chars) /\ chars[current + 1] \in C19_NameStart) =>
           /\ current' = current + 1
           /\ result' = result
           /\ reported' = Append(reported, [line |-> line,
                            message |-> <<"Unexpected character: ", chars[current + 1]>>])
           /\ has_error'
      /\ (pc' = "done" /\ calls' = 1 /\ chars = Test_integer_number) =>
           /\ Kinds(result') = <<"Equal", "Number", "Semicolon", "Eof">>
           /\ has_error' ]_vars

C19_Witness ==
  /\ pc = "done" /\ calls = 1
  /\ chars = Test_integer_number
  /\ ~err0 /\ has_error
  /\ Len(result) = 4
  /\ Len(reported) = 9

\* A Scanner exists and scan_tokens has been called on it.
Scanning == pc \in {"loop", "comment", "string", "number", "fraction"}

\* C14: the life of the diagnostics flag.  Every call of error sets it; it
\* becomes true only by a call of error and false only by the reset() of the
\* prompt loop; no step of a scan clears it; during and after a scan it is
\* true iff it was true when the Scanner was built or the scan has reported a
\* diagnostic (so a scan that reports nothing leaves it as it was).
C14_FlagLifecycle ==
  [][ /\ Len(reported') = Len(reported) + 1 => has_error'
      /\ (~has_error /\ has_error') => Len(reported') = Len(reported) + 1
      /\ (has_error /\ ~has_error') =>
           (mode = "prompt" /\ dpc = "after_run" /\ dpc' = "read")
      /\ (Scanning /\ has_error) => has_error'
      /\ pc' \in {"loop", "comment", "string", "number", "fraction", "done", "panic"} =>
           has_error' = (err0' \/ reported' # <<>>) ]_vars

\* A test that reports nothing has returned, the flag still set by a test
\* before it.
C14_Witness ==
  /\ mode = "tests" /\ pc = "done"
  /\ err0 /\ reported = <<>> /\ has_error
  /\ chars = Test_single_line_comment

\* C15: at the prompt the flag is false whenever the scan of a line begins, it
\* is reset after every line, and a line that reports diagnostics does not end
\* the loop.
C15_PromptGoesOn ==
  [][ mode = "prompt" =>
        /\ (dpc = "read" /\ dpc' = "scan") => ~has_error'
        /\ dpc = "after_run" => (dpc' = "read" /\ ~has_error')
        /\ reported # <<>> => dpc' # "exited" ]_vars

\* C16: in file mode the process exits with status 65 iff a diagnostic was
\* reported while the file was scanned, and the exit status is decided only
\* after the whole file has been scanned and its tokens printed.
C16_FileExitStatus ==
  (mode = "file" /\ dpc = "exited") =>
    /\ exit_code = 65 <=> reported # <<>>
    /\ exit_code \in {0, 65} =>
         \/ chars = <<>>
         \/ pc = "done" /\ current = Len(chars) /\ printed = result

\* The threads that hold a guard of STATE.
Holders == {t \in Threads : tpc[t] \in {"held", "unlock"}}

\* Every thread has made all its calls and returned from the last.
AllReturned == \A t \in Threads : tpc[t] = "idle" /\ ops[t] = MaxOps

\* C17: with threads reporting errors at the same time, at most one thread
\* holds the mutex and it is the one recorded as the holder; every read and
\* write of the flag is made by the holder; some thread can always take a
\* step until all have returned; and once a call of error has completed the
\* flag stays true, and has_error() returns true, until reset() is called.
C17_Serialized ==
  /\ [](/\ Cardinality(Holders) <= 1
        /\ Holders = (IF lock = "none" THEN {} ELSE {lock})
        /\ pending => has_error
        /\ AllReturned \/ ENABLED NextConc)
  /\ [][ /\ \A t \in Threads :
              (tpc[t] = "held" /\ tpc'[t] = "unlock") =>
                /\ lock = t /\ lock' = t
                /\ top[t] = "has_error" =>
                     tseen'[t] = has_error /\ (pending => tseen'[t])
         /\ has_error' # has_error =>
              \E t \in Threads : lock = t /\ tpc[t] = "held" /\ tpc'[t] = "unlock"
         /\ tseen' # tseen =>
              \E t \in Threads : lock = t /\ tpc[t] = "held" /\ tpc'[t] = "unlock" ]_vars

\* One scanning thread has completed a call of error, the other holds the
\* mutex inside report, and the watching thread, which has read the flag as
\* true, waits for the mutex.
C17_Witness ==
  /\ pending /\ ops["s1"] >= 1
  /\ tpc["s2"] = "held" /\ top["s2"] = "error" /\ lock = "s2"
  /\ tpc[Watcher] = "lock" /\ tseen[Watcher]

====
